---- MODULE Spec2Model ----
(***************************************************************************)
(* The propose -> approve -> execute gate of src/app.py (a Streamlit       *)
(* script).  One script run is triggered by one UI event: a chat input     *)
(* (submit), a click on Approve, a click on Cancel.  The session state is  *)
(* st.session_state.messages and st.session_state.pending_plan; the        *)
(* execution backend is w.jobs.run_now.                                    *)
(*                                                                         *)
(* Text is modelled as a sequence of tokens.  "{" and "}" are the brace    *)
(* characters; every other token stands for a run of characters holding    *)
(* no brace (prose, a "key": "string" pair, a "key": prefix, a scalar).    *)
(* The separators of JSON (commas, white space) are left out.              *)
(***************************************************************************)
EXTENDS Integers, Sequences, FiniteSets, TLC

\* ------------------------------------------------------------------ bounds
MaxMessages == 5
MaxPlans == 2
MaxCalls == 2
MaxTextLen == 5

\* --------------------------------------------------------------- constants
RUN_ACTION == "run_databricks_job"

JOB_CATALOG ==
    [label \in {"test db job"} |->
        [job_name |-> "Test_DB_Job1", job_id |-> 1234567890]]

JOB_NAME_TO_ID ==
    [n \in {JOB_CATALOG[l].job_name : l \in DOMAIN JOB_CATALOG} |->
        JOB_CATALOG[CHOOSE l \in DOMAIN JOB_CATALOG :
                        JOB_CATALOG[l].job_name = n].job_id]

\* ------------------------------------------------------------------ tokens
\* "key": "string" pairs
PairTokens == {"A1", "A2", "X", "J1", "J2", "K"}
\* "key": prefixes, followed by a value
KeyTokens == {"G:", "P:"}
\* a scalar value (null, a number, a string)
ScalarToken == "s"
\* prose
ProseToken == "t"

KeyOf(tok) ==
    CASE tok \in {"A1", "A2"} -> "action"
      [] tok = "G:" -> "arguments"
      [] tok \in {"J1", "J2"} -> "job_name"
      [] tok = "P:" -> "parameters"
      [] tok = "X" -> "note"
      [] OTHER -> "env"

ValueOf(tok) ==
    CASE tok = "A1" -> RUN_ACTION
      [] tok = "A2" -> "delete_databricks_job"
      [] tok = "J1" -> "Test_DB_Job1"
      [] tok = "J2" -> "unknown_job"
      [] OTHER -> "x"

\* ------------------------------------------------------------ extract_json
Braces(text, b) == {i \in 1..Len(text) : text[i] = b}

Min(S) == CHOOSE x \in S : \A y \in S : x <= y
Max(S) == CHOOSE x \in S : \A y \in S : x >= y

NoMatch == <<>>

\* re.search(r"\{[\s\S]*\}", text): leftmost "{", then greedily to the last "}"
extract_json(text) ==
    LET opens == Braces(text, "{")
        closes == Braces(text, "}")
    IN  IF opens = {} \/ {j \in closes : j > Min(opens)} = {}
        THEN NoMatch
        ELSE SubSeq(text, Min(opens), Max(closes))

\* -------------------------------------------------------------- json.loads
\* The decoded object, flattened: the top-level keys, the value of "action",
\* what "arguments" is, and inside an arguments object its keys, the value of
\* "job_name" and what "parameters" is.
EmptyObject ==
    [keys |-> {}, action |-> "", argsKind |-> "absent", argKeys |-> {},
     job_name |-> "", parameters |-> "absent"]

ROOT == <<"$">>
ARGS == <<"$", "G:">>
PARAMS == <<"$", "G:", "P:">>

InParams(stack) == Len(stack) >= 3 /\ SubSeq(stack, 1, 3) = PARAMS

\* a "key": "string" member of the object open at `stack` (a repeated key:
\* the last one wins)
SetPair(acc, stack, tok) ==
    IF stack = ROOT THEN
        [acc EXCEPT !.keys = @ \cup {KeyOf(tok)},
                    !.action = IF KeyOf(tok) = "action" THEN ValueOf(tok) ELSE @]
    ELSE IF stack = ARGS THEN
        [acc EXCEPT !.argKeys = @ \cup {KeyOf(tok)},
                    !.job_name = IF KeyOf(tok) = "job_name" THEN ValueOf(tok) ELSE @]
    ELSE IF InParams(stack) THEN [acc EXCEPT !.parameters = "nonempty"]
    ELSE acc

\* a "key": scalar member
SetScalar(acc, stack, key) ==
    IF stack = ROOT THEN
        IF key = "G:" THEN
            [acc EXCEPT !.keys = @ \cup {"arguments"}, !.argsKind = "scalar",
                        !.argKeys = {}, !.job_name = "", !.parameters = "absent"]
        ELSE [acc EXCEPT !.keys = @ \cup {KeyOf(key)}]
    ELSE IF stack = ARGS THEN
        [acc EXCEPT !.argKeys = @ \cup {KeyOf(key)},
                    !.parameters = IF key = "P:" THEN "scalar" ELSE @]
    ELSE IF InParams(stack) THEN [acc EXCEPT !.parameters = "nonempty"]
    ELSE acc

\* a "key": { member, the object opening
SetObject(acc, stack, key) ==
    IF stack = ROOT THEN
        IF key = "G:" THEN
            [acc EXCEPT !.keys = @ \cup {"arguments"}, !.argsKind = "object",
                        !.argKeys = {}, !.job_name = "", !.parameters = "absent"]
        ELSE [acc EXCEPT !.keys = @ \cup {KeyOf(key)}]
    ELSE IF stack = ARGS THEN
        [acc EXCEPT !.argKeys = @ \cup {KeyOf(key)},
                    !.parameters = IF key = "P:" THEN "empty" ELSE @]
    ELSE IF InParams(stack) THEN [acc EXCEPT !.parameters = "nonempty"]
    ELSE acc

DecodeError == [ok |-> FALSE, value |-> EmptyObject]

\* The decoder at token i: `stack` names the open objects, `key` is the key
\* whose value is awaited ("" when a member or a closing brace is awaited).
RECURSIVE Decode(_, _, _, _, _)
Decode(toks, i, stack, key, acc) ==
    IF i > Len(toks) THEN DecodeError
    ELSE LET tok == toks[i] IN
        IF key # "" THEN
            IF tok = ScalarToken THEN
                Decode(toks, i + 1, stack, "", SetScalar(acc, stack, key))
            ELSE IF tok = "{" THEN
                Decode(toks, i + 1, Append(stack, key), "", SetObject(acc, stack, key))
            ELSE DecodeError
        ELSE IF stack = <<>> THEN
            IF tok = "{" THEN Decode(toks, i + 1, ROOT, "", acc) ELSE DecodeError
        ELSE IF tok \in PairTokens THEN
            Decode(toks, i + 1, stack, "", SetPair(acc, stack, tok))
        ELSE IF tok \in KeyTokens THEN
            Decode(toks, i + 1, stack, tok, acc)
        ELSE IF tok = "}" THEN
            IF Len(stack) = 1
            THEN IF i = Len(toks) THEN [ok |-> TRUE, value |-> acc] ELSE DecodeError
            ELSE Decode(toks, i + 1, SubSeq(stack, 1, Len(stack) - 1), "", acc)
        ELSE DecodeError

\* json.loads(json_text): ok = FALSE stands for json.JSONDecodeError
json_loads(toks) == Decode(toks, 1, <<>>, "", EmptyObject)

\* ------------------------------------------------------------------- state
VARIABLES
    messages,       \* st.session_state.messages
    pending_plan,   \* st.session_state.pending_plan
    calls,          \* the w.jobs.run_now calls issued so far, in order
    planSeq,        \* the number of objects json.loads has returned
    cancelled,      \* the plans a cancel has cleared
    event,          \* the UI event of the latest script run
    error,          \* the exception raised in the latest script run
    steps,          \* the remote and catalog operations of the latest run
    reply,          \* the translator's raw output in the latest run
    json_text,      \* what extract_json returned in the latest run
    before          \* pending_plan at the start of the latest run

vars ==
    <<messages, pending_plan, calls, planSeq, cancelled, event, error, steps,
      reply, json_text, before>>

\* A plan is the decoded object and the identity of that object (`plan` is
\* the ordinal of the json.loads call that made it).  None has ordinal 0.
None == [plan |-> 0, value |-> EmptyObject]

\* bool(pending_plan): None and the empty dict are falsy
Truthy(p) == p # None /\ p.value.keys # {}

NoError == [type |-> "", line |-> 0, escaped |-> FALSE]
Raised(type, line, escaped) == [type |-> type, line |-> line, escaped |-> escaped]

NoSummary == [action |-> "", arguments |-> EmptyObject]

Message(role, kind, text, summary, run_id) ==
    [role |-> role, kind |-> kind, text |-> text, summary |-> summary,
     run_id |-> run_id]

\* ---------------------------------------------------------------- executor
\* the plan's parameters left out of the call
notebook_params_dropped(value) == "empty"

\* args.get("parameters", {})
notebook_params(value) ==
    IF "parameters" \in value.argKeys THEN value.parameters ELSE "empty"

ExecResult(err, st, issued, run_id) ==
    [error |-> err, steps |-> st, calls |-> issued, run_id |-> run_id]

RunNow(p, backend) ==
    [job_id |-> JOB_NAME_TO_ID[p.value.job_name],
     notebook_params |-> notebook_params(p.value),
     plan |-> p.plan,
     raised |-> ~backend.ok,
     run_id |-> backend.run_id]

\* JOB_NAME_TO_ID[job_name] raises KeyError for a name the catalog lacks
KnownJob(job_name) == job_name \in DOMAIN JOB_NAME_TO_ID

\* a lookup with a default instead of a failing one
execute_databricks_job_get(p, backend) ==
    LET v == p.value
        call == [job_id |-> IF KnownJob(v.job_name)
                            THEN JOB_NAME_TO_ID[v.job_name] ELSE 0,
                 notebook_params |-> notebook_params(v),
                 plan |-> p.plan,
                 raised |-> ~backend.ok,
                 run_id |-> backend.run_id]
    IN  IF v.argsKind # "object" THEN
            ExecResult(Raised("TypeError", 103, TRUE), <<>>, <<>>, 0)
        ELSE IF "job_name" \notin v.argKeys THEN
            ExecResult(Raised("KeyError", 103, TRUE), <<>>, <<>>, 0)
        ELSE IF ~backend.ok THEN
            ExecResult(Raised("BackendError", 108, TRUE), <<"lookup", "run_now">>,
                       <<call>>, 0)
        ELSE
            ExecResult(NoError, <<"lookup", "run_now">>, <<call>>, backend.run_id)

\* a failed run_now tried once more
execute_databricks_job_retry(p, backend) ==
    LET v == p.value IN
    IF v.argsKind # "object" THEN
        ExecResult(Raised("TypeError", 103, TRUE), <<>>, <<>>, 0)
    ELSE IF "job_name" \notin v.argKeys THEN
        ExecResult(Raised("KeyError", 103, TRUE), <<>>, <<>>, 0)
    ELSE IF ~KnownJob(v.job_name) THEN
        ExecResult(Raised("KeyError", 106, TRUE), <<"lookup">>, <<>>, 0)
    ELSE IF ~backend.ok THEN
        ExecResult(Raised("BackendError", 108, TRUE),
                   <<"lookup", "run_now", "run_now">>,
                   <<RunNow(p, backend), RunNow(p, backend)>>, 0)
    ELSE
        ExecResult(NoError, <<"lookup", "run_now">>, <<RunNow(p, backend)>>,
                   backend.run_id)

execute_databricks_job(p, backend) ==
    LET v == p.value IN
    IF v.argsKind # "object" THEN
        ExecResult(Raised("TypeError", 103, TRUE), <<>>, <<>>, 0)
    ELSE IF "job_name" \notin v.argKeys THEN
        ExecResult(Raised("KeyError", 103, TRUE), <<>>, <<>>, 0)
    ELSE IF ~KnownJob(v.job_name) THEN
        ExecResult(Raised("KeyError", 106, TRUE), <<"lookup">>, <<>>, 0)
    ELSE IF ~backend.ok THEN
        ExecResult(Raised("BackendError", 108, TRUE), <<"lookup", "run_now">>,
                   <<RunNow(p, backend)>>, 0)
    ELSE
        ExecResult(NoError, <<"lookup", "run_now">>, <<RunNow(p, backend)>>,
                   backend.run_id)

\* no test of the action
AnyAction(action) == TRUE

SupportedAction(action) == action = RUN_ACTION

execute_plan(p, backend) ==
    LET v == p.value IN
    IF "action" \notin v.keys THEN
        ExecResult(Raised("KeyError", 116, TRUE), <<>>, <<>>, 0)
    ELSE IF SupportedAction(v.action) THEN
        IF "arguments" \notin v.keys
        THEN ExecResult(Raised("KeyError", 117, TRUE), <<>>, <<>>, 0)
        ELSE execute_databricks_job(p, backend)
    ELSE ExecResult(Raised("ValueError", 118, TRUE), <<>>, <<>>, 0)

\* ------------------------------------------------------------------ inputs
\* what the user types into st.chat_input (non-empty)
UserInputs == {<<"t">>}

\* objects the translator may write
PlanTexts ==
    { <<"{", "A1", "G:", "{", "J1", "P:", "{", "}", "}", "}">>,
      <<"{", "A1", "G:", "{", "J1", "P:", "{", "K", "}", "}", "}">>,
      <<"{", "A1", "G:", "{", "J1", "}", "}">>,
      <<"{", "A1", "G:", "{", "J2", "P:", "{", "}", "}", "}">>,
      <<"{", "A2", "G:", "{", "J1", "}", "}">>,
      <<"{", "A2", "G:", "{", "J2", "}", "}">>,
      <<"{", "A2", "}">>,
      <<"{", "G:", "{", "J1", "}", "}">>,
      <<"{", "A1", "}">>,
      <<"{", "A1", "G:", "s", "}">>,
      <<"{", "A1", "G:", "{", "P:", "{", "}", "}", "}">>,
      <<"{", "X", "}">>,
      <<"{", "}">> }

\* the translator's raw outputs: prose, an object alone, an object inside
\* prose, and texts whose braces hold no decodable object
Replies ==
    PlanTexts
    \cup { <<"t">> \o o \o <<"t">> :
            o \in { <<"{", "A1", "G:", "{", "J1", "P:", "{", "}", "}", "}">>,
                    <<"{", "X", "}">> } }
    \cup { <<"t">>, <<"t", "{">>, <<"}", "t", "{">>,
           <<"{", "t", "}">>, <<"{", "A1", "G:", "}">>,
           <<"{", "X", "}", "t", "{", "X", "}">>,
           <<"{", "A1", "G:", "{", "J1", "}", "}", "t", "}">> }

\* call_agent: the reply, or the remote inference call raising
AgentOutcomes ==
    {[ok |-> TRUE, reply |-> r] : r \in Replies}
    \cup {[ok |-> FALSE, reply |-> <<>>]}

RunIds == {501, 502}

\* w.jobs.run_now: a run identifier, or the call raising
BackendOutcomes ==
    {[ok |-> TRUE, run_id |-> r] : r \in RunIds}
    \cup {[ok |-> FALSE, run_id |-> 0]}

\* ----------------------------------------------------------------- actions
Init ==
    /\ messages = <<>>
    /\ pending_plan = None
    /\ calls = <<>>
    /\ planSeq = 0
    /\ cancelled = {}
    /\ event = "start"
    /\ error = NoError
    /\ steps = <<>>
    /\ reply = <<>>
    /\ json_text = NoMatch
    /\ before = None

\* a lingering pending plan kept
KeepLingering(old, new) == IF old.plan # 0 THEN old ELSE new

\* st.session_state.pending_plan = plan
StorePlan(old, new) == new

\* the dry-run text: plan['action'] and json.dumps(plan['arguments'])
DryRun(value) ==
    [action |-> value.action,
     arguments |-> [value EXCEPT !.keys = {}, !.action = ""]]

\* A script run with user_input set (the buttons are False in this run).
Submit(user_input, agent) ==
    LET withUser == Append(messages, Message("user", "user", user_input, NoSummary, 0))
        found == IF agent.ok THEN extract_json(agent.reply) ELSE NoMatch
        decoded == json_loads(found)
        plan == [plan |-> planSeq + 1, value |-> decoded.value]
    IN  /\ Len(messages) + 2 <= MaxMessages
        /\ event' = "submit"
        /\ before' = pending_plan
        /\ reply' = agent.reply
        /\ json_text' = found
        /\ UNCHANGED <<calls, cancelled>>
        /\ IF ~agent.ok THEN
                \* call_agent raises: the run ends at line 156
                /\ messages' = withUser
                /\ error' = Raised("TranslationError", 89, TRUE)
                /\ steps' = <<"call_agent">>
                /\ UNCHANGED <<pending_plan, planSeq>>
           ELSE IF found = NoMatch THEN
                /\ messages' = Append(withUser,
                        Message("assistant", "reply", agent.reply, NoSummary, 0))
                /\ error' = NoError
                /\ steps' = <<"call_agent">>
                /\ UNCHANGED <<pending_plan, planSeq>>
           ELSE IF ~decoded.ok THEN
                \* json.loads raises, caught at line 185
                /\ messages' = withUser
                /\ error' = Raised("JSONDecodeError", 162, FALSE)
                /\ steps' = <<"call_agent", "json.loads">>
                /\ UNCHANGED <<pending_plan, planSeq>>
           ELSE
                /\ planSeq < MaxPlans
                /\ planSeq' = planSeq + 1
                /\ pending_plan' = StorePlan(pending_plan, plan)
                /\ steps' = <<"call_agent", "json.loads">>
                /\ IF "action" \notin plan.value.keys THEN
                        \* plan['action'] raises, caught at line 185
                        /\ messages' = withUser
                        /\ error' = Raised("KeyError", 168, FALSE)
                   ELSE IF "arguments" \notin plan.value.keys THEN
                        /\ messages' = withUser
                        /\ error' = Raised("KeyError", 171, FALSE)
                   ELSE
                        /\ messages' = Append(withUser,
                                Message("assistant", "dry_run", <<>>,
                                        DryRun(plan.value), 0))
                        /\ error' = NoError

\* A script run with the Approve button clicked.
Approve(backend) ==
    /\ event' = "approve"
    /\ before' = pending_plan
    /\ reply' = <<>>
    /\ json_text' = NoMatch
    /\ UNCHANGED <<planSeq, cancelled>>
    /\ IF ~Truthy(pending_plan) THEN
            \* line 199: the approval controls are skipped
            /\ error' = NoError
            /\ steps' = <<>>
            /\ UNCHANGED <<messages, pending_plan, calls>>
       ELSE LET r == execute_plan(pending_plan, backend) IN
            /\ Len(calls) + Len(r.calls) <= MaxCalls
            /\ r.error = NoError => Len(messages) < MaxMessages
            /\ calls' = calls \o r.calls
            /\ steps' = r.steps
            /\ error' = r.error
            /\ IF r.error = NoError THEN
                    /\ pending_plan' = None
                    /\ messages' = Append(messages,
                            Message("assistant", "execution", <<>>,
                                    DryRun(pending_plan.value), r.run_id))
               ELSE
                    \* execute_plan raises: the run ends at line 218
                    UNCHANGED <<messages, pending_plan>>

\* the cancel branch running the plan before it clears it
CancelExecutes ==
    /\ event' = "cancel"
    /\ before' = pending_plan
    /\ reply' = <<>>
    /\ json_text' = NoMatch
    /\ UNCHANGED <<messages, planSeq>>
    /\ IF Truthy(pending_plan)
       THEN LET r == execute_plan(pending_plan, [ok |-> TRUE, run_id |-> 501]) IN
            /\ Len(calls) + Len(r.calls) <= MaxCalls
            /\ calls' = calls \o r.calls
            /\ steps' = r.steps
            /\ error' = r.error
            /\ pending_plan' = None
            /\ cancelled' = cancelled \cup {pending_plan.plan}
       ELSE /\ error' = NoError
            /\ steps' = <<>>
            /\ UNCHANGED <<pending_plan, cancelled, calls>>

\* the cancel branch leaving pending_plan as it is
CancelKeepsPlan ==
    /\ event' = "cancel"
    /\ before' = pending_plan
    /\ reply' = <<>>
    /\ json_text' = NoMatch
    /\ error' = NoError
    /\ steps' = <<>>
    /\ UNCHANGED <<messages, calls, planSeq, pending_plan>>
    /\ cancelled' = IF Truthy(pending_plan)
                    THEN cancelled \cup {pending_plan.plan} ELSE cancelled

\* the cancel branch taking the dry-run summary out of the history
CancelDropsDryRun ==
    /\ event' = "cancel"
    /\ before' = pending_plan
    /\ reply' = <<>>
    /\ json_text' = NoMatch
    /\ error' = NoError
    /\ steps' = <<>>
    /\ UNCHANGED <<calls, planSeq>>
    /\ IF Truthy(pending_plan)
       THEN /\ pending_plan' = None
            /\ cancelled' = cancelled \cup {pending_plan.plan}
            /\ messages' = IF messages # <<>>
                           THEN SubSeq(messages, 1, Len(messages) - 1)
                           ELSE messages
       ELSE UNCHANGED <<pending_plan, cancelled, messages>>

\* A script run with the Cancel button clicked.
Cancel ==
    /\ event' = "cancel"
    /\ before' = pending_plan
    /\ reply' = <<>>
    /\ json_text' = NoMatch
    /\ error' = NoError
    /\ steps' = <<>>
    /\ UNCHANGED <<messages, calls, planSeq>>
    /\ IF Truthy(pending_plan)
       THEN /\ pending_plan' = None
            /\ cancelled' = cancelled \cup {pending_plan.plan}
       ELSE UNCHANGED <<pending_plan, cancelled>>

Next ==
    \/ \E user_input \in UserInputs, agent \in AgentOutcomes :
            Submit(user_input, agent)
    \/ \E backend \in BackendOutcomes : Approve(backend)
    \/ Cancel

Spec == Init /\ [][Next]_vars

\* ------------------------------------------------- extract_json on its own
\* the characters that matter to extract_json: the two braces, anything else
TextAlphabet == {"{", "}", "t"}

Texts == UNION {[1..n -> TextAlphabet] : n \in 0..MaxTextLen}

ExtractInit ==
    /\ reply \in Texts
    /\ json_text = NoMatch
    /\ event = "start"
    /\ messages = <<>>
    /\ pending_plan = None
    /\ calls = <<>>
    /\ planSeq = 0
    /\ cancelled = {}
    /\ error = NoError
    /\ steps = <<>>
    /\ before = None

\* json_text = extract_json(reply)
Extract ==
    /\ event = "start"
    /\ event' = "extract"
    /\ json_text' = extract_json(reply)
    /\ UNCHANGED <<messages, pending_plan, calls, planSeq, cancelled, error,
                   steps, reply, before>>

ExtractSpec == ExtractInit /\ [][Extract]_vars

\* ================================================================== claims
HasJobName(value) ==
    /\ "arguments" \in value.keys
    /\ value.argsKind = "object"
    /\ "job_name" \in value.argKeys

HasAction(value) == "action" \in value.keys

\* C1: the start-run call is issued only in a run that handles an approve
\* event with a plan pending; never while pending_plan is None, never in a
\* submit or a cancel.
C1_StartRunOnlyOnApprove ==
    [][calls' # calls =>
            /\ event' = "approve"
            /\ pending_plan # None
            /\ Truthy(pending_plan)]_vars

C1_Witness ==
    /\ event = "approve"
    /\ Truthy(before)
    /\ steps = <<"lookup", "run_now">>
    /\ Len(calls) = 1

\* C2 (as claimed): once an approve of a pending plan has been handled,
\* pending_plan is None, whatever the Executor did.  Stated for the pending
\* plans that have every required key.
C2_ApproveClearsPending ==
    (/\ event = "approve"
     /\ Truthy(before)
     /\ HasAction(before.value)
     /\ HasJobName(before.value))
    => pending_plan = None

\* C3 (as claimed): no plan is the subject of more than one start-run call.
C3_PlanConsumedOnce ==
    \A i, j \in DOMAIN calls : calls[i].plan = calls[j].plan => i = j

\* C4: one approve event issues at most one start-run call, and an approve
\* that finds the gate in IDLE issues none.
C4_AtMostOneCallPerApprove ==
    [][event' = "approve" =>
            /\ Len(calls') <= Len(calls) + 1
            /\ pending_plan = None => calls' = calls]_vars

C4_Witness ==
    /\ event = "approve"
    /\ before = None
    /\ Len(calls) = 1
    /\ \E i \in DOMAIN messages : messages[i].kind = "execution"

\* C5: a cancel of a pending plan sets pending_plan to None and issues no
\* backend call, and no later step issues a call for a cancelled plan.
C5_CancelClearsForGood ==
    [][/\ (event' = "cancel" /\ Truthy(pending_plan)) =>
                (pending_plan' = None /\ calls' = calls)
       /\ \A i \in DOMAIN calls' :
                i > Len(calls) => calls'[i].plan \notin cancelled]_vars

C5_Witness ==
    /\ cancelled # {}
    /\ event = "approve"
    /\ steps = <<"lookup", "run_now">>
    /\ before.plan \notin cancelled

\* C6: approving a pending plan with the supported action and a job_name the
\* catalog lacks ends in the catalog lookup's error and issues no call.
C6_UnknownJobNoCall ==
    [][(/\ event' = "approve"
        /\ Truthy(pending_plan)
        /\ HasAction(pending_plan.value)
        /\ pending_plan.value.action = RUN_ACTION
        /\ HasJobName(pending_plan.value)
        /\ pending_plan.value.job_name \notin DOMAIN JOB_NAME_TO_ID)
       => (/\ error' = Raised("KeyError", 106, TRUE)
           /\ "run_now" \notin {steps'[i] : i \in DOMAIN steps'}
           /\ calls' = calls)]_vars

C6_Witness ==
    /\ event = "approve"
    /\ before.value.job_name = "unknown_job"
    /\ error = Raised("KeyError", 106, TRUE)

\* C7: approving a plan whose action is another tag ends in the unknown-action
\* error, with no catalog lookup and no call, whatever the arguments are.
C7_UnknownActionNoLookup ==
    [][(/\ event' = "approve"
        /\ Truthy(pending_plan)
        /\ HasAction(pending_plan.value)
        /\ pending_plan.value.action # RUN_ACTION)
       => (/\ error' = Raised("ValueError", 118, TRUE)
           /\ steps' = <<>>
           /\ calls' = calls)]_vars

C7_Witness ==
    /\ event = "approve"
    /\ error = Raised("ValueError", 118, TRUE)
    /\ HasJobName(before.value)
    /\ before.value.job_name \in DOMAIN JOB_NAME_TO_ID

\* the plan wire shape: a brace-delimited object that decodes and has an
\* action and an arguments mapping with a job_name
WellFormedPlanText(text) ==
    /\ extract_json(text) # NoMatch
    /\ json_loads(extract_json(text)).ok
    /\ HasAction(json_loads(extract_json(text)).value)
    /\ HasJobName(json_loads(extract_json(text)).value)

\* C8 (as claimed): after a submit whose translator output holds no
\* well-formed plan object, the gate is in IDLE.  Stated for the submits that
\* found the gate in IDLE, and with IDLE read as "no plan on offer" (None or
\* the empty object, for which line 199 skips the approval controls).
C8_NoPlanLeavesIdle ==
    (/\ event = "submit"
     /\ error.type # "TranslationError"
     /\ ~Truthy(before)
     /\ ~WellFormedPlanText(reply))
    => ~Truthy(pending_plan)

\* C9 (as claimed): a pending plan always has an action key and an arguments
\* mapping with a job_name key.  Stated for the pending plans on offer for
\* approval (line 199).
C9_PendingPlanHasKeys ==
    Truthy(pending_plan) =>
        (HasAction(pending_plan.value) /\ HasJobName(pending_plan.value))

\* C10: a submit that yields a new plan makes it the pending plan, in place of
\* the one that was pending, and a start-run call is always for the most
\* recently proposed plan.
C10_LatestPlanOnly ==
    [][/\ (event' = "submit" /\ planSeq' # planSeq) =>
                pending_plan' =
                    [plan |-> planSeq',
                     value |-> json_loads(extract_json(reply')).value]
       /\ \A i \in DOMAIN calls' :
                i > Len(calls) =>
                    (calls'[i].plan = planSeq /\ pending_plan.plan = planSeq)]_vars

C10_Witness ==
    /\ event = "approve"
    /\ steps = <<"lookup", "run_now">>
    /\ cancelled = {}
    /\ Len(calls) = 1
    /\ calls[1].plan = 2
    /\ Len(messages) >= 4
    /\ messages[2].kind = "dry_run"
    /\ messages[4].kind = "dry_run"

\* C11 (as claimed): a submit whose remote inference call fails changes
\* neither message_history nor pending_plan.
C11_FailedTranslationNoMutation ==
    [][(event' = "submit" /\ error'.type = "TranslationError")
       => (messages' = messages /\ pending_plan' = pending_plan)]_vars

\* C12: approving a pending plan with the supported action and a job_name of
\* the catalog, the backend call succeeding, issues exactly one start-run
\* call, with the catalog's id for that job_name and the plan's parameters
\* (the empty mapping when the plan has none), and appends a confirmation
\* that holds the run identifier the backend returned.
C12_ApprovedRunCall ==
    [][(/\ event' = "approve"
        /\ Truthy(pending_plan)
        /\ HasAction(pending_plan.value)
        /\ pending_plan.value.action = RUN_ACTION
        /\ HasJobName(pending_plan.value)
        /\ pending_plan.value.job_name \in DOMAIN JOB_NAME_TO_ID
        /\ error'.type # "BackendError")
       => (/\ error' = NoError
           /\ Len(calls') = Len(calls) + 1
           /\ LET call == calls'[Len(calls')]
                  said == messages'[Len(messages')]
              IN  /\ call.job_id = JOB_NAME_TO_ID[pending_plan.value.job_name]
                  /\ call.notebook_params =
                        IF "parameters" \in pending_plan.value.argKeys
                        THEN pending_plan.value.parameters ELSE "empty"
                  /\ ~call.raised
                  /\ Len(messages') = Len(messages) + 1
                  /\ said.kind = "execution"
                  /\ said.run_id = call.run_id
                  /\ said.summary.arguments.job_name =
                        pending_plan.value.job_name)]_vars

C12_Witness ==
    /\ event = "approve"
    /\ error = NoError
    /\ Len(calls) >= 1
    /\ calls[Len(calls)].notebook_params = "nonempty"
    /\ calls[Len(calls)].job_id = 1234567890
    /\ messages[Len(messages)].kind = "execution"
    /\ messages[Len(messages)].run_id = 502

\* C13 (as claimed): every approve of a pending plan appends one entry to the
\* transcript, the result or the error.  Stated for the pending plans that
\* have every required key.
C13_ApproveAppendsOutcome ==
    [][(/\ event' = "approve"
        /\ Truthy(pending_plan)
        /\ HasAction(pending_plan.value)
        /\ HasJobName(pending_plan.value))
       => (/\ Len(messages') = Len(messages) + 1
           /\ SubSeq(messages', 1, Len(messages)) = messages
           /\ messages'[Len(messages')].role = "assistant")]_vars

\* C14 (as claimed): a cancel of a pending plan adds a cancellation notice to
\* the transcript.
C14_CancelAddsNotice ==
    [][(event' = "cancel" /\ Truthy(pending_plan))
       => \E i \in DOMAIN messages' :
            /\ i > Len(messages)
            /\ messages'[i].kind = "cancellation"]_vars

DryRuns == {i \in DOMAIN messages : messages[i].kind = "dry_run"}

\* C15 (as claimed): whenever a plan is pending, the most recent dry-run
\* summary of the transcript is the summary of that plan.
C15_DryRunDescribesPending ==
    Truthy(pending_plan) =>
        /\ DryRuns # {}
        /\ messages[Max(DryRuns)].role = "assistant"
        /\ messages[Max(DryRuns)].summary = DryRun(pending_plan.value)

\* C16 (as claimed): a reply whose brace-delimited substring does not decode
\* is handled as a reply with no braces: the user message and then the raw
\* reply are appended, pending_plan is unchanged, no error escapes.
C16_DecodeFailureIsChat ==
    [][(/\ event' = "submit"
        /\ error'.type # "TranslationError"
        /\ extract_json(reply') # NoMatch
        /\ ~json_loads(extract_json(reply')).ok)
       => (/\ Len(messages') = Len(messages) + 2
           /\ messages'[Len(messages')] =
                Message("assistant", "reply", reply', NoSummary, 0)
           /\ pending_plan' = pending_plan
           /\ ~error'.escaped)]_vars

\* C17: message_history is append-only: in every step the history before is
\* a prefix of the history after.
C17_HistoryAppendOnly ==
    [][/\ Len(messages') >= Len(messages)
       /\ SubSeq(messages', 1, Len(messages)) = messages]_vars

C17_Witness ==
    /\ event = "approve"
    /\ Len(messages) = 5
    /\ messages[5].kind = "execution"
    /\ messages[4].kind = "dry_run"
    /\ messages[2].kind = "reply"

\* the closing braces that balance the text's first opening brace
Closers(text) ==
    LET first == Min(Braces(text, "{")) IN
    {j \in Braces(text, "}") :
        /\ j > first
        /\ Cardinality({k \in Braces(text, "{") : k <= j}) =
           Cardinality({k \in Braces(text, "}") : first < k /\ k <= j})}

\* the first top-level brace-delimited object: from the first opening brace
\* to the closing brace that matches it
FirstObject(text) ==
    IF Braces(text, "{") = {} \/ Closers(text) = {}
    THEN NoMatch
    ELSE SubSeq(text, Min(Braces(text, "{")), Min(Closers(text)))

\* C18 (as claimed): extract_json returns the first top-level brace-delimited
\* object of the text, and nothing that follows it.  Stated for the texts
\* that hold such an object.
C18_ExtractsFirstObject ==
    (event = "extract" /\ FirstObject(reply) # NoMatch)
        => json_text = FirstObject(reply)

====
